---- MODULE Spec2Model ----
(***************************************************************************)
(* Model of the gemini-proxy conversation caches (generic flashcards       *)
(* service, political-philosophy and Kant flashcards services) and of the  *)
(* tolerant category parser of modules/shared/categoryUtils.               *)
(*                                                                         *)
(* JavaScript runs each handler to completion up to its first await, so    *)
(* the code before `await chat.sendMessage(...)` is one atomic step        *)
(* (StartGeneric / StartPhilosophy) and the code after it is a second      *)
(* atomic step (Complete* on fulfilment, Fail* on rejection).              *)
(***************************************************************************)
EXTENDS Integers, Sequences, FiniteSets, TLC

\* ------------------------------------------------------------------ bounds
\* requests started in one behaviour
MaxRequests == 3
\* requests in flight at the same time
MaxTasks == 2

\* ------------------------------------------------------------------ inputs
Pipe == "|"
\* (thinker, work) pairs of the requests; validateInput accepts every non-empty
\* string, the separator included
Inputs ==
  { << <<"a">>, <<"c">> >>,
    << <<"a">>, <<"b", "|", "c">> >>,
    << <<"a", "|", "b">>, <<"c">> >>,
    << <<"h">>, <<"c">> >> }
Thinkers == { tw[1] : tw \in Inputs }
Works == { tw[2] : tw \in Inputs }
\* conversationKey values supplied by callers of the generic endpoint
UserKeys == { <<"x">>, <<"y">> }
\* the n-th request carries its own content and receives its own reply
Content(n) == "content" \o ToString(n)
Reply(n) == "reply" \o ToString(n)

Generic == "FlashcardsService"
Political == "PoliticalPhilosophyFlashcardsService"
Kant == "KantPhilosophyFlashcardsService"
Philosophy == "PhilosophyFlashcardsService"
PhilosophyServices == { Political, Kant }
Services == { Generic } \cup PhilosophyServices
Stores == { Generic, Philosophy }

\* the class whose static maps a service reads through `this`
StoreOf(svc) == IF svc = Generic THEN Generic ELSE Philosophy

EmptyMap == [k \in {} |-> 0]

\* no JSON value is on record
NoValue == [t |-> "none", v |-> <<>>]

\* no request was handled by a controller
NoBody == [none |-> TRUE]

VARIABLES
  chatSessions,             \* store -> (key -> ChatSession)
  chatHistory,              \* store -> (key -> sequence of ChatContent)
  conversationInitialized,  \* store -> set of keys
  tasks,                    \* slot -> request suspended at its await
  started,                  \* number of requests started so far
  channels,                 \* per channel id (startChat call): what was sent and answered on it
  lastOutcome,              \* what the most recently finished request returned
  exchanges,                \* store -> (key -> exchanges recorded since the history was absent)
  run,                      \* the current run of consecutive same-key requests
  failed,                   \* <<store, key>> whose latest request failed, no request since
  responseText,             \* parsers: raw text of the AI response
  categories,               \* category parsers: vocabulary of the request
  cardTypes,                \* flashcard parser: card types of the request
  caller,                   \* parsers: the service that calls its parser
  sent,                     \* observer: the JSON value the response text renders
  body,                     \* controllers: the body of the request handled last
  parsed,                   \* parsers: the value returned
  ppc                       \* parsers: position

cacheVars == <<chatSessions, chatHistory, conversationInitialized, tasks,
               started, channels, lastOutcome, exchanges, run, failed>>
callVars == <<responseText, categories, cardTypes, caller, sent, body>>
parseVars == <<responseText, categories, cardTypes, caller, sent, body, parsed, ppc>>
vars == <<chatSessions, chatHistory, conversationInitialized, tasks,
          started, channels, lastOutcome, exchanges, run, failed,
          responseText, categories, cardTypes, caller, sent, body, parsed, ppc>>

\* ------------------------------------------------------- string helpers
startsWith(s, p) == Len(s) >= Len(p) /\ SubSeq(s, 1, Len(p)) = p
endsWith(s, p) == Len(s) >= Len(p) /\ SubSeq(s, Len(s) - Len(p) + 1, Len(s)) = p

\* ------------------------------------------------------- map helpers
Has(m, k) == k \in DOMAIN m
Delete(m, k) == [x \in DOMAIN m \ {k} |-> m[x]]
Set(m, k, v) == [x \in DOMAIN m \cup {k} |-> IF x = k THEN v ELSE m[x]]
Get(m, k, dflt) == IF k \in DOMAIN m THEN m[k] ELSE dflt

\* ------------------------------------------------------- messages
\* the instruction text of a service (the generic one is supplied by the caller)
buildSystemInstruction(svc) == "SYSTEM:" \o svc

\* FlashcardsService.buildMessage: instruction prefix (first message only) + content
buildGenericMessage(content, systemInstruction, isFirstMessage) ==
  [systemInstructionPrefix |-> IF isFirstMessage THEN systemInstruction ELSE "",
   content |-> content]

\* PhilosophyFlashcardsService.buildMessage: instruction prefix (first message
\* only) + thinker, work and paragraph
buildMessage(svc, thinker, work, paragraph, isFirstMessage) ==
  [systemInstructionPrefix |-> IF isFirstMessage THEN buildSystemInstruction(svc) ELSE "",
   thinker |-> thinker, work |-> work, content |-> paragraph]

CarriesInstruction(message) == message.systemInstructionPrefix # ""

UserContent(message) == [role |-> "user", text |-> message]

\* mutant: the reply is stored with the role of the request
ModelContent_AsUser(text) == [role |-> "user", text |-> text]

ModelContent(text) == [role |-> "model", text |-> text]

\* ------------------------------------------------------- the caches
\* the three static maps of one class, with the startChat call log
Cache(store) ==
  [sessions |-> chatSessions[store], history |-> chatHistory[store],
   init |-> conversationInitialized[store], channels |-> channels]

generateConversationKey(thinker, work) == thinker \o <<Pipe>> \o work

\* mutant: a channel is created on every call, the cached one is ignored
getOrCreateChatSession_AlwaysNew(c, conversationKey) ==
  LET storedHistory == Get(c.history, conversationKey, <<>>)
      chat == [id |-> Len(c.channels) + 1, history |-> storedHistory]
  IN [c EXCEPT !.sessions = Set(@, conversationKey, chat),
               !.init = @ \ {conversationKey},
               !.channels = Append(@, [sends |-> 0, instructions |-> 0, answered |-> FALSE, by |-> "nobody"])]

\* mutant: a new channel always starts from an empty history
getOrCreateChatSession_EmptySeed(c, conversationKey) ==
  IF Has(c.sessions, conversationKey)
  THEN c
  ELSE LET chat == [id |-> Len(c.channels) + 1, history |-> <<>>]
       IN [c EXCEPT !.sessions = Set(@, conversationKey, chat),
                    !.init = @ \ {conversationKey},
                    !.channels = Append(@, [sends |-> 0, instructions |-> 0, answered |-> FALSE, by |-> "nobody"])]

\* returns the cache after the call; the channel is then sessions[key]
getOrCreateChatSession(c, conversationKey) ==
  IF Has(c.sessions, conversationKey)
  THEN c
  ELSE LET storedHistory == Get(c.history, conversationKey, <<>>)
           chat == [id |-> Len(c.channels) + 1, history |-> storedHistory]
       IN [c EXCEPT !.sessions = Set(@, conversationKey, chat),
                    !.init = @ \ {conversationKey},
                    !.channels = Append(@, [sends |-> 0, instructions |-> 0, answered |-> FALSE, by |-> "nobody"])]

clearHistoryForThinker(c, thinker, currentWork) ==
  LET old == { k \in DOMAIN c.sessions :
                 /\ startsWith(k, thinker \o <<Pipe>>)
                 /\ ~endsWith(k, <<Pipe>> \o currentWork) }
  IN [c EXCEPT !.sessions = [k \in DOMAIN @ \ old |-> @[k]],
               !.history = [k \in DOMAIN @ \ old |-> @[k]],
               !.init = @ \ old]

getOrCreateChatSessionWithCleanup(c, conversationKey, thinker, work) ==
  IF Has(c.sessions, conversationKey)
  THEN c
  ELSE getOrCreateChatSession(clearHistoryForThinker(c, thinker, work), conversationKey)

\* mutant: the flag is not set when the first message is sent
markInitialized_Never(init, conversationKey, isFirstMessage) == init

\* conversationInitialized.add(key) when the message is the first one
markInitialized(init, conversationKey, isFirstMessage) ==
  IF isFirstMessage THEN init \cup {conversationKey} ELSE init

\* mutant: the message is sent a second time (a retry)
sendMessage_Retry(chans, chat, message) ==
  [chans EXCEPT ![chat.id] =
     [sends |-> @.sends + 2,
      instructions |-> @.instructions + (IF CarriesInstruction(message) THEN 1 ELSE 0),
      answered |-> @.answered, by |-> @.by]]

\* chat.sendMessage(message): the call itself, before its promise settles
sendMessage(chans, chat, message) ==
  [chans EXCEPT ![chat.id] =
     [sends |-> @.sends + 1,
      instructions |-> @.instructions + (IF CarriesInstruction(message) THEN 1 ELSE 0),
      answered |-> @.answered, by |-> @.by]]

\* mutant: the new exchange is appended and nothing is dropped
updatedHistory_Untruncated(currentHistory, message, text) ==
  currentHistory \o <<UserContent(message), ModelContent(text)>>

\* the stored history after one more exchange: first exchange + latest exchange
updatedHistory(currentHistory, message, text) ==
  IF Len(currentHistory) = 0
  THEN <<UserContent(message), ModelContent(text)>>
  ELSE LET firstExchange == SubSeq(currentHistory, 1, IF Len(currentHistory) < 2
                                                       THEN Len(currentHistory) ELSE 2)
       IN firstExchange \o <<UserContent(message), ModelContent(text)>>

\* mutant: the catch block forgets the initialized flag
removeFailedChatSession_KeepsFlag(c, conversationKey) ==
  IF Has(c.sessions, conversationKey)
  THEN [c EXCEPT !.sessions = Delete(@, conversationKey),
                 !.history = Delete(@, conversationKey)]
  ELSE c

\* the catch block of the generic service
removeFailedChatSession(c, conversationKey) ==
  IF Has(c.sessions, conversationKey)
  THEN [c EXCEPT !.sessions = Delete(@, conversationKey),
                 !.history = Delete(@, conversationKey),
                 !.init = @ \ {conversationKey}]
  ELSE c

GenericError == "Failed to generate flashcards from content"
PhilosophyError == "Failed to generate flashcards from paragraph"

\* ------------------------------------------------------- bookkeeping
\* the requests suspended at their await, in the order they were started
InFlight == 1..Len(tasks)
Without(seq, i) == SubSeq(seq, 1, i - 1) \o SubSeq(seq, i + 1, Len(seq))

NoRun == [sends |-> 0]

CachedKeys(c) == DOMAIN c.sessions \cup DOMAIN c.history \cup c.init

\* what is cached for conversations of `thinker` with a work other than `work`
OtherWorks(c, thinker, work) ==
  { k \in CachedKeys(c) : /\ startsWith(k, thinker \o <<Pipe>>)
                          /\ Len(k) > Len(thinker) + 1
                          /\ k # generateConversationKey(thinker, work) }

\* exchanges recorded for a key since its history was last absent
ExchangesAfter(old, history) ==
  [k \in DOMAIN old \cap DOMAIN history |-> old[k]]

RunAfterStart(store, key, created, chat) ==
  IF run.sends > 0 /\ run.store = store /\ run.key = key
  THEN [run EXCEPT !.sends = @ + 1,
                   !.creations = @ + (IF created THEN 1 ELSE 0),
                   !.oneChat = @ /\ chat.id = run.chat]
  ELSE [sends |-> 1, store |-> store, key |-> key, fresh |-> created,
        creations |-> IF created THEN 1 ELSE 0, chat |-> chat.id,
        oneChat |-> TRUE, clean |-> TRUE]

RunAfterFailure(store, key) ==
  IF run.sends > 0 /\ run.store = store /\ run.key = key
  THEN [run EXCEPT !.clean = FALSE]
  ELSE run

\* ------------------------------------------------------- the handlers
\* the state after the synchronous part of generateFlashcards, which leaves the
\* cache c behind and sends `message` on the channel of `key`
Suspend(svc, key, thinker, work, isFirstMessage, created, message, c) ==
  LET store == StoreOf(svc)
      chat == c.sessions[key]
  IN /\ chatSessions' = [chatSessions EXCEPT ![store] = c.sessions]
     /\ chatHistory' = [chatHistory EXCEPT ![store] = c.history]
     /\ conversationInitialized' = [conversationInitialized EXCEPT ![store] = c.init]
     /\ channels' = [sendMessage(c.channels, chat, message) EXCEPT ![chat.id].by =
                                      IF created THEN svc ELSE @]
     /\ tasks' = Append(tasks,
                    [svc |-> svc, key |-> key,
                     thinker |-> thinker, work |-> work,
                     isFirstMessage |-> isFirstMessage, created |-> created,
                     chat |-> chat.id, seeded |-> Len(chat.history),
                     message |-> message, n |-> started + 1,
                     afterFailure |-> <<store, key>> \in failed,
                     othersLeft |-> svc # Generic /\ OtherWorks(c, thinker, work) # {}])
     /\ started' = started + 1
     /\ exchanges' = [exchanges EXCEPT ![store] = ExchangesAfter(@, c.history)]
     /\ run' = RunAfterStart(store, key, created, chat)
     /\ failed' = failed \ {<<store, key>>}
     /\ UNCHANGED lastOutcome

\* FlashcardsService.generateFlashcards up to `await chat.sendMessage(message)`
BeginGeneric(userProvidedKey) ==
  /\ started < MaxRequests
  /\ Len(tasks) < MaxTasks
  /\ LET conversationKey == userProvidedKey
         content == Content(started + 1)
         isFirstMessage == conversationKey \notin conversationInitialized[Generic]
         c0 == Cache(Generic)
         c1 == getOrCreateChatSession(c0, conversationKey)
         message == buildGenericMessage(content, buildSystemInstruction(Generic),
                                        isFirstMessage)
         c2 == [c1 EXCEPT !.init = markInitialized(@, conversationKey, isFirstMessage)]
     IN Suspend(Generic, conversationKey, <<>>, <<>>, isFirstMessage,
                ~Has(c0.sessions, conversationKey), message, c2)

\* a call of FlashcardsService.generateFlashcards
StartGeneric(userProvidedKey) ==
  /\ BeginGeneric(userProvidedKey)
  /\ UNCHANGED parseVars

\* Political/Kant generateFlashcards up to `await chat.sendMessage(message)`
BeginPhilosophy(svc, thinker, work) ==
  /\ started < MaxRequests
  /\ Len(tasks) < MaxTasks
  /\ LET conversationKey == generateConversationKey(thinker, work)
         paragraph == Content(started + 1)
         isFirstMessage == conversationKey \notin conversationInitialized[Philosophy]
         c0 == Cache(Philosophy)
         c1 == getOrCreateChatSessionWithCleanup(c0, conversationKey, thinker, work)
         c2 == [c1 EXCEPT !.init = markInitialized(@, conversationKey, isFirstMessage)]
         message == buildMessage(svc, thinker, work, paragraph, isFirstMessage)
     IN Suspend(svc, conversationKey, thinker, work, isFirstMessage,
                ~Has(c0.sessions, conversationKey), message, c2)

\* a call of generateFlashcards of the political or the Kant service
StartPhilosophy(svc, thinker, work) ==
  /\ BeginPhilosophy(svc, thinker, work)
  /\ UNCHANGED parseVars

\* the code after the await when sendMessage resolved: record the exchange, return
Resume(i) ==
  LET t == tasks[i]
      store == StoreOf(t.svc)
      text == Reply(t.n)
      currentHistory == Get(chatHistory[store], t.key, <<>>)
      history == updatedHistory(currentHistory, t.message, text)
      n == Get(exchanges[store], t.key, [n |-> 0]).n
      pair == <<UserContent(t.message), ModelContent(text)>>
      stored == Set(chatHistory[store], t.key, history)
  IN /\ chatHistory' = [chatHistory EXCEPT ![store] = stored]
     /\ exchanges' = [exchanges EXCEPT ![store] =
          Set(@, t.key, [n |-> n + 1,
                         first |-> IF n = 0 THEN pair ELSE @[t.key].first,
                         last |-> pair])]
     /\ tasks' = Without(tasks, i)
     /\ lastOutcome' =
          [status |-> "ok", svc |-> t.svc, created |-> t.created,
           ownHistory |-> Has(stored, t.key),
           oldHistory |-> /\ t.svc # Generic
                          /\ OtherWorks([sessions |-> <<>>, history |-> stored,
                                         init |-> {}], t.thinker, t.work) # {}]
     /\ channels' = [channels EXCEPT ![t.chat].answered =
                                      @ \/ CarriesInstruction(t.message)]
     /\ UNCHANGED <<chatSessions, conversationInitialized, started, run,
                    failed, parseVars>>

CompleteGeneric(i) ==
  /\ tasks[i].svc = Generic
  /\ Resume(i)

CompletePhilosophy(i) ==
  /\ tasks[i].svc \in PhilosophyServices
  /\ Resume(i)

\* whether anything is still cached for `key`
Remains(c, key) == key \in CachedKeys(c)

\* the catch block of FlashcardsService.generateFlashcards
FailGeneric(i) ==
  /\ tasks[i].svc = Generic
  /\ LET t == tasks[i]
         c == removeFailedChatSession(Cache(Generic), t.key)
     IN /\ chatSessions' = [chatSessions EXCEPT ![Generic] = c.sessions]
        /\ chatHistory' = [chatHistory EXCEPT ![Generic] = c.history]
        /\ conversationInitialized' = [conversationInitialized EXCEPT ![Generic] = c.init]
        /\ exchanges' = [exchanges EXCEPT ![Generic] = ExchangesAfter(@, c.history)]
        /\ tasks' = Without(tasks, i)
        /\ lastOutcome' = [status |-> "error", svc |-> t.svc, error |-> GenericError,
                           remains |-> Remains(c, t.key)]
        /\ run' = RunAfterFailure(Generic, t.key)
        /\ failed' = failed \cup {<<Generic, t.key>>}
        /\ UNCHANGED <<channels, started, parseVars>>

\* the catch block of the Political and Kant generateFlashcards: log and rethrow
FailPhilosophy(i) ==
  /\ tasks[i].svc \in PhilosophyServices
  /\ LET t == tasks[i]
     IN /\ tasks' = Without(tasks, i)
        /\ lastOutcome' = [status |-> "error", svc |-> t.svc, error |-> PhilosophyError,
                           remains |-> Remains(Cache(Philosophy), t.key)]
        /\ run' = RunAfterFailure(Philosophy, t.key)
        /\ failed' = failed \cup {<<Philosophy, t.key>>}
        /\ UNCHANGED <<chatSessions, chatHistory, conversationInitialized, channels,
                       started, exchanges, parseVars>>

CacheInit ==
  /\ chatSessions = [s \in Stores |-> <<>>]
  /\ chatHistory = [s \in Stores |-> <<>>]
  /\ conversationInitialized = [s \in Stores |-> {}]
  /\ tasks = <<>>
  /\ started = 0
  /\ channels = <<>>
  /\ lastOutcome = [status |-> "none"]
  /\ exchanges = [s \in Stores |-> <<>>]
  /\ run = NoRun
  /\ failed = {}

ParseIdle ==
  /\ body = NoBody
  /\ responseText = <<>>
  /\ categories = <<>>
  /\ cardTypes = <<>>
  /\ caller = "none"
  /\ sent = NoValue
  /\ parsed = <<>>
  /\ ppc = "off"

Init == CacheInit /\ ParseIdle

Next ==
  \/ \E k \in UserKeys : StartGeneric(k)
  \/ \E svc \in PhilosophyServices, tw \in Inputs : StartPhilosophy(svc, tw[1], tw[2])
  \/ \E i \in InFlight : CompleteGeneric(i)
  \/ \E i \in InFlight : CompletePhilosophy(i)
  \/ \E i \in InFlight : FailGeneric(i)
  \/ \E i \in InFlight : FailPhilosophy(i)

Spec == Init /\ [][Next]_vars

\* ======================================================= category parser
\* Texts (the response, vocabulary entries) are sequences of one-character
\* strings.

\* longest element list of a rendered response
MaxList == 2

Space == " "
Newline == "\n"
Quote == "\""
\* the fence character of markdown (U+0060), written with a stand-in
Backtick == "^"
Fence == <<Backtick, Backtick, Backtick>>
Digits == { "1", "2" }

isWhitespace(ch) == ch \in { Space, Newline }

RECURSIVE trimStart(_)
trimStart(s) ==
  IF s # <<>> /\ isWhitespace(Head(s)) THEN trimStart(Tail(s)) ELSE s

RECURSIVE trimEnd(_)
trimEnd(s) ==
  IF s # <<>> /\ isWhitespace(s[Len(s)])
  THEN trimEnd(SubSeq(s, 1, Len(s) - 1))
  ELSE s

trim(s) == trimEnd(trimStart(s))

toLowerCase(s) ==
  [i \in DOMAIN s |-> IF s[i] = "A" THEN "a" ELSE IF s[i] = "B" THEN "b" ELSE s[i]]

includes(s, sub) ==
  \E i \in 1..(Len(s) - Len(sub) + 1) : SubSeq(s, i, i + Len(sub) - 1) = sub

\* removes the markdown fence around the response
\* mutant: the markers are removed wherever they occur
cleanResponseText_Everywhere(text) ==
  LET notMarker(ch) == ch # Backtick
  IN trim(SelectSeq(trim(text), notMarker))

cleanResponseText(text) ==
  LET t0 == trim(text)
      t1 == IF startsWith(t0, Fence \o <<"j", "s", "o", "n">>)
            THEN trimStart(SubSeq(t0, 8, Len(t0)))
            ELSE t0
      t2 == IF startsWith(t1, Fence) THEN trimStart(SubSeq(t1, 4, Len(t1))) ELSE t1
      t3 == IF endsWith(t2, Fence) THEN trimEnd(SubSeq(t2, 1, Len(t2) - 3)) ELSE t2
  IN trim(t3)

\* ---- JSON values
JString(s) == [t |-> "string", v |-> s]
JNumber(digits) == [t |-> "number", v |-> digits]
JNull == [t |-> "null", v |-> <<>>]
JBoolean(b) == [t |-> "boolean", v |-> b]
JArray(elements) == [t |-> "array", v |-> elements]
JObject(members) == [t |-> "object", v |-> members]
Undefined == [t |-> "undefined", v |-> <<>>]

SyntaxError == [ok |-> FALSE]
Parsed(val, rest) == [ok |-> TRUE, val |-> val, rest |-> rest]

\* ---- JSON.parse, by recursive descent; s starts after the opening quote
parseString(s) ==
  IF \E i \in 1..Len(s) : s[i] = Quote
  THEN LET close == CHOOSE i \in 1..Len(s) :
                      s[i] = Quote /\ \A j \in 1..(i - 1) : s[j] # Quote
       IN IF \E j \in 1..(close - 1) : s[j] = Newline
          THEN SyntaxError
          ELSE Parsed(JString(SubSeq(s, 1, close - 1)), SubSeq(s, close + 1, Len(s)))
  ELSE SyntaxError

parseNumber(s) ==
  LET n == CHOOSE n \in 1..Len(s) :
             /\ \A j \in 1..n : s[j] \in Digits
             /\ (n = Len(s) \/ s[n + 1] \notin Digits)
  IN Parsed(JNumber(SubSeq(s, 1, n)), SubSeq(s, n + 1, Len(s)))

parseLiteral(s) ==
  IF startsWith(s, <<"n", "u", "l", "l">>)
  THEN Parsed(JNull, SubSeq(s, 5, Len(s)))
  ELSE IF startsWith(s, <<"t", "r", "u", "e">>)
  THEN Parsed(JBoolean(TRUE), SubSeq(s, 5, Len(s)))
  ELSE IF startsWith(s, <<"f", "a", "l", "s", "e">>)
  THEN Parsed(JBoolean(FALSE), SubSeq(s, 6, Len(s)))
  ELSE SyntaxError

RECURSIVE parseValue(_)
RECURSIVE parseElements(_, _)
RECURSIVE parseMembers(_, _)

parseValue(text) ==
  LET s == trimStart(text)
  IN IF s = <<>> THEN SyntaxError
     ELSE IF Head(s) = Quote THEN parseString(Tail(s))
     ELSE IF Head(s) = "["
     THEN LET r == trimStart(Tail(s))
          IN IF r # <<>> /\ Head(r) = "]"
             THEN Parsed(JArray(<<>>), Tail(r))
             ELSE parseElements(r, <<>>)
     ELSE IF Head(s) = "{"
     THEN LET r == trimStart(Tail(s))
          IN IF r # <<>> /\ Head(r) = "}"
             THEN Parsed(JObject(<<>>), Tail(r))
             ELSE parseMembers(r, <<>>)
     ELSE IF Head(s) \in Digits THEN parseNumber(s)
     ELSE parseLiteral(s)

parseElements(s, acc) ==
  LET e == parseValue(s)
  IN IF ~e.ok THEN SyntaxError
     ELSE LET r == trimStart(e.rest)
          IN IF r = <<>> THEN SyntaxError
             ELSE IF Head(r) = "," THEN parseElements(Tail(r), Append(acc, e.val))
             ELSE IF Head(r) = "]" THEN Parsed(JArray(Append(acc, e.val)), Tail(r))
             ELSE SyntaxError

parseMembers(text, acc) ==
  LET s == trimStart(text)
  IN IF s = <<>> \/ Head(s) # Quote THEN SyntaxError
     ELSE LET k == parseString(Tail(s))
          IN IF ~k.ok THEN SyntaxError
             ELSE LET c == trimStart(k.rest)
                  IN IF c = <<>> \/ Head(c) # ":" THEN SyntaxError
                     ELSE LET m == parseValue(Tail(c))
                          IN IF ~m.ok THEN SyntaxError
                             ELSE LET r == trimStart(m.rest)
                                      members == Append(acc, <<k.val.v, m.val>>)
                                  IN IF r = <<>> THEN SyntaxError
                                     ELSE IF Head(r) = ","
                                     THEN parseMembers(Tail(r), members)
                                     ELSE IF Head(r) = "}"
                                     THEN Parsed(JObject(members), Tail(r))
                                     ELSE SyntaxError

JSONparse(text) ==
  LET r == parseValue(text)
  IN IF r.ok /\ trimStart(r.rest) = <<>> THEN [ok |-> TRUE, val |-> r.val] ELSE SyntaxError

\* ---- what the parser asks of the parsed value
truthy(val) ==
  \/ val.t \in { "array", "object", "number" }
  \/ val.t = "string" /\ Len(val.v) > 0
  \/ val.t = "boolean" /\ val.v

isObject(val) == val.t \in { "array", "object" }
isArray(val) == val.t = "array"

\* val[name]: the last member of that name wins
property(val, name) ==
  IF val.t = "object" /\ \E i \in DOMAIN val.v : val.v[i][1] = name
  THEN val.v[CHOOSE i \in DOMAIN val.v :
               val.v[i][1] = name /\ \A j \in DOMAIN val.v : val.v[j][1] = name => j <= i][2]
  ELSE Undefined

CategoriesKey == <<"c", "a", "t", "e", "g", "o", "r", "i", "e", "s">>

\* mutant: the fallback compares case-sensitively
extractCategoriesFromText_CaseSensitive(text, cats) ==
  LET occurs(cat) == includes(text, cat)
  IN SelectSeq(cats, occurs)

\* the fallback: the vocabulary entries that occur in the text
extractCategoriesFromText(text, cats) ==
  LET occurs(cat) == includes(toLowerCase(text), toLowerCase(cat))
  IN SelectSeq(cats, occurs)

\* the elements kept by the filter, as they are in the response
validCategories(elements, cats) ==
  LET valid(cat) == cat.t = "string" /\ \E i \in DOMAIN cats : cats[i] = trim(cat.v)
      kept == SelectSeq(elements, valid)
  IN [i \in DOMAIN kept |-> kept[i].v]

\* ---- how a call ends: it returns a value or throws
Returned(value) == [threw |-> FALSE, value |-> value]
Thrown == [threw |-> TRUE, value |-> <<>>]

\* mutant: the catch block throws again
catchAndReturn_Rethrow(attempt, fallback) == attempt

\* try { attempt } catch { return fallback }
catchAndReturn(attempt, fallback) ==
  IF attempt.threw THEN Returned(fallback) ELSE attempt

\* the try block of parseAndValidateCategoriesResponse
tryParseCategories(text, cats) ==
  LET p == JSONparse(cleanResponseText(text))
  IN IF ~p.ok THEN Thrown
     ELSE IF truthy(p.val) /\ isObject(p.val) /\ isArray(property(p.val, CategoriesKey))
     THEN Returned(validCategories(property(p.val, CategoriesKey).v, cats))
     ELSE IF isArray(p.val) THEN Returned(validCategories(p.val.v, cats))
     ELSE Thrown

parseAndValidateCategoriesResponse(text, cats) ==
  catchAndReturn(tryParseCategories(text, cats), extractCategoriesFromText(text, cats))

\* ---- the responses and vocabularies of the parser's specification
Elements ==
  { JString(<<"a">>), JString(<<Space, "a">>), JString(<<"b">>), JString(<<"A">>),
    JNumber(<<"1">>), JNull }

Lists == UNION { [1..n -> Elements] : n \in 0..MaxList }

RECURSIVE Join(_)
Join(texts) ==
  IF texts = <<>> THEN <<>>
  ELSE IF Len(texts) = 1 THEN texts[1]
  ELSE texts[1] \o <<",", Space>> \o Join(Tail(texts))

RECURSIVE Render(_)
Render(val) ==
  IF val.t = "string" THEN <<Quote>> \o val.v \o <<Quote>>
  ELSE IF val.t = "number" THEN val.v
  ELSE IF val.t = "null" THEN <<"n", "u", "l", "l">>
  ELSE IF val.t = "array"
  THEN <<"[">> \o Join([i \in DOMAIN val.v |-> Render(val.v[i])]) \o <<"]">>
  ELSE <<"{">>
       \o Join([i \in DOMAIN val.v |->
                  <<Quote>> \o val.v[i][1] \o <<Quote, ":", Space>> \o Render(val.v[i][2])])
       \o <<"}">>

Fenced(text) == Fence \o <<"j", "s", "o", "n", Newline>> \o text \o <<Newline>> \o Fence

\* the texts of the shape {categories: L} or bare array L
Renderings(L) ==
  LET object == Render(JObject(<< <<CategoriesKey, JArray(L)>> >>))
      array == Render(JArray(L))
  IN { object, array, Fenced(object), <<Space>> \o array \o <<Newline>> }

\* texts that JSON.parse rejects
Unparseable ==
  { <<>>, <<"A">>, <<"b", Space, "A">>, <<"n", "o">>,
    <<"[", Quote, "a", Quote>>, <<"[", "B", "]">>,
    <<Quote, "a", Quote, Space, "x">>,
    <<"{", Quote, "a", Quote, ":", "}">>,
    <<"[", Quote, "a", Quote, ",", "]">>,
    Fence \o <<"A", Space, "b">> \o Fence }

\* texts that are JSON of another shape
OtherShapes ==
  { Render(JString(<<"a">>)), Render(JNull), Render(JNumber(<<"1", "2">>)),
    Render(JObject(<< <<<<"b">>, JArray(<<JString(<<"a">>)>>)>> >>)),
    Render(JObject(<< <<CategoriesKey, JString(<<"A">>)>> >>)),
    <<"t", "r", "u", "e">>, <<"{", "}">>,
    Render(JObject(<< <<CategoriesKey, JNull>>,
                      <<CategoriesKey, JArray(<<JString(<<"b">>)>>)>> >>)) }

\* a response naming every entry of the largest vocabulary
AllOfThem == <<JString(<<"a">>), JString(<<"b">>), JString(<<"A">>), JString(<<"B">>)>>

Responses ==
  UNION { Renderings(L) : L \in Lists \cup { AllOfThem } } \cup Unparseable \cup OtherShapes

Vocabularies ==
  { << <<"a">> >>,
    << <<"b">>, <<"a">> >>,
    << <<"B">>, <<"a", Space, "b">>, <<"x">> >>,
    << <<"a">>, <<"b">>, <<"A">>, <<"B">> >> }

\* the response is JSON of one of the two expected formats
expectedFormat(text) ==
  LET p == JSONparse(cleanResponseText(text))
  IN IF p.ok
     THEN isArray(p.val) \/ isArray(property(p.val, CategoriesKey))
     ELSE FALSE

CategoryIdentification == "CategoryIdentificationService"

ParseInit ==
  /\ body = NoBody
  /\ responseText \in Responses
  /\ categories \in Vocabularies
  /\ cardTypes = <<>>
  /\ caller = CategoryIdentification
  /\ sent = NoValue
  /\ parsed = <<>>
  /\ ppc = "called"

\* the structured path: the response is JSON of one of the two shapes
ParseStructured ==
  /\ ppc = "called"
  /\ caller = CategoryIdentification
  /\ expectedFormat(responseText)
  /\ LET outcome == parseAndValidateCategoriesResponse(responseText, categories)
     IN /\ parsed' = outcome.value
        /\ ppc' = IF outcome.threw THEN "threw" ELSE "returned"
  /\ UNCHANGED callVars
  /\ UNCHANGED cacheVars

\* the catch block: the text is not JSON, or JSON of another shape
ParseFallback ==
  /\ ppc = "called"
  /\ caller = CategoryIdentification
  /\ ~expectedFormat(responseText)
  /\ LET outcome == parseAndValidateCategoriesResponse(responseText, categories)
     IN /\ parsed' = outcome.value
        /\ ppc' = IF outcome.threw THEN "threw" ELSE "fellBack"
  /\ UNCHANGED callVars
  /\ UNCHANGED cacheVars

InitParse == CacheInit /\ ParseInit

NextParse == ParseStructured \/ ParseFallback

SpecParse == InitParse /\ [][NextParse]_vars

\* ======================================================= response cleaner
\* longest text put between the fence markers
MaxText == 4

\* the texts over blank, fence character and one letter
Texts == UNION { [1..n -> { Space, Backtick, "x" }] : n \in 0..MaxText }

\* T between a leading fence with the language tag and a trailing fence
fenceWrapTagged(T) == Fence \o <<"j", "s", "o", "n", Newline>> \o T \o <<Newline>> \o Fence

\* T between a leading fence without tag and a trailing fence
fenceWrapPlain(T) == Fence \o <<Newline>> \o T \o <<Newline>> \o Fence

\* texts with fence markers in the interior only
InteriorFenced ==
  { <<"x">> \o Fence \o <<"x">>,
    <<Space, "x">> \o Fence \o <<"x", Space>>,
    <<"x">> \o Fence \o <<"j", "s", "o", "n", Newline, "x">>,
    <<"x", Newline>> \o Fence \o <<Newline>> \o Fence \o <<Newline, "x">>,
    <<Backtick, Backtick, "x">> \o Fence \o <<"x", Backtick, Backtick>> }

CleanInputs ==
  Texts \cup { fenceWrapTagged(T) : T \in Texts } \cup { fenceWrapPlain(T) : T \in Texts }
    \cup InteriorFenced

CleanInit ==
  /\ body = NoBody
  /\ responseText \in CleanInputs
  /\ categories = <<>>
  /\ cardTypes = <<>>
  /\ caller = "none"
  /\ sent = NoValue
  /\ parsed = <<>>
  /\ ppc = "raw"

\* one call of cleanResponseText
Clean ==
  /\ ppc = "raw"
  /\ parsed' = cleanResponseText(responseText)
  /\ ppc' = "cleaned"
  /\ UNCHANGED callVars
  /\ UNCHANGED cacheVars

InitClean == CacheInit /\ CleanInit

NextClean == Clean

SpecClean == InitClean /\ [][NextClean]_vars

\* ======================================================= flashcard parsers
\* most cards in the flashcards array of a rendered response
MaxCards == 2

TypeKey == <<"t", "y", "p", "e">>
FrontKey == <<"f", "r", "o", "n", "t">>
BackKey == <<"b", "a", "c", "k">>
ContextLogicKey == <<"c", "o", "n", "t", "e", "x", "t", "_", "l", "o", "g", "i", "c">>
TagsKey == <<"t", "a", "g", "s">>
FlashcardsKey == <<"f", "l", "a", "s", "h", "c", "a", "r", "d", "s">>

Concept == <<"C", "o", "n", "c", "e", "p", "t">>
Argument == <<"A", "r", "g", "u", "m", "e", "n", "t">>
Context == <<"C", "o", "n", "t", "e", "x", "t">>
Contrast == <<"C", "o", "n", "t", "r", "a", "s", "t">>
ErrorType == <<"E", "r", "r", "o", "r">>

\* the card types the political and the Kant parser accept
FlashcardType == { Concept, Argument, Context, Contrast }

Flashcard(type, front, back, context_logic, tags) ==
  [type |-> type, front |-> front, back |-> back,
   context_logic |-> context_logic, tags |-> tags]

isString(val) == val.t = "string"

\* card && typeof card.type === 'string' && ... front ... && ... back
hasBasicStructure(card) ==
  /\ truthy(card)
  /\ isString(property(card, TypeKey))
  /\ isString(property(card, FrontKey))
  /\ isString(property(card, BackKey))

\* the filter of the generic parser
keptByGeneric(card, types) ==
  IF hasBasicStructure(card) /\ Len(types) > 0
  THEN \E i \in DOMAIN types : types[i] = property(card, TypeKey).v
  ELSE hasBasicStructure(card)

\* the filter of the political and of the Kant parser
keptByPhilosophy(card) ==
  /\ truthy(card)
  /\ isString(property(card, TypeKey))
  /\ property(card, TypeKey).v \in FlashcardType
  /\ isString(property(card, FrontKey))
  /\ isString(property(card, BackKey))
  /\ isString(property(card, ContextLogicKey))

\* val?.trim() throws unless val is undefined, null or a string
optionalTrimThrows(val) == val.t \notin { "undefined", "null", "string" }
optionalTrim(val) == IF isString(val) THEN JString(trim(val.v)) ELSE Undefined

stringsOf(val) == JArray(SelectSeq(val.v, isString))

mapGeneric(card) ==
  Flashcard(property(card, TypeKey),
            JString(trim(property(card, FrontKey).v)),
            JString(trim(property(card, BackKey).v)),
            optionalTrim(property(card, ContextLogicKey)),
            IF isArray(property(card, TagsKey))
            THEN stringsOf(property(card, TagsKey))
            ELSE Undefined)

mapPhilosophy(card, input) ==
  Flashcard(property(card, TypeKey),
            JString(trim(property(card, FrontKey).v)),
            JString(trim(property(card, BackKey).v)),
            JString(trim(property(card, ContextLogicKey).v)),
            IF isArray(property(card, TagsKey))
            THEN stringsOf(property(card, TagsKey))
            ELSE JArray(<<property(card, TypeKey), JString(input.thinker),
                          JString(input.work)>>))

\* the literal cards; a literal text is kept as one atom
NoValidFlashcardsGeneric ==
  Flashcard(JString(ErrorType), JString(<<"Could not process the content">>),
            JString(<<"The AI response did not contain valid flashcards.">>),
            JString(<<"Ensure the content has enough substance to analyze">>),
            JArray(<<JString(ErrorType)>>))

ParseErrorGeneric ==
  Flashcard(JString(ErrorType), JString(<<"Failed to process AI response">>),
            JString(<<"Could not parse the response. Please try again.">>),
            JString(<<"There was an error processing the response from the AI.">>),
            JArray(<<JString(ErrorType)>>))

NoValidFlashcardsPhilosophy(input) ==
  Flashcard(JString(Concept), JString(<<"main idea of the passage of ">> \o input.thinker),
            JString(<<"the paragraph could not be processed">>),
            JString(<<"the paragraph needs enough philosophical content">>),
            JArray(<<JString(ErrorType), JString(input.thinker), JString(input.work)>>))

ParseErrorPhilosophy(input) ==
  Flashcard(JString(Concept), JString(<<"main idea of the passage of ">> \o input.thinker),
            JString(<<"the response could not be processed">>),
            JString(<<"an error occurred while processing the response">>),
            JArray(<<JString(ErrorType), JString(input.thinker), JString(input.work)>>))

\* the try block of FlashcardsService.parseFlashcardsResponse
tryParseFlashcardsGeneric(text, types) ==
  LET p == JSONparse(cleanResponseText(text))
  IN IF ~p.ok THEN Thrown
     ELSE IF p.val.t = "null" THEN Thrown
     ELSE IF ~isArray(property(p.val, FlashcardsKey)) THEN Thrown
     ELSE LET kept(card) == keptByGeneric(card, types)
              valid == SelectSeq(property(p.val, FlashcardsKey).v, kept)
          IN IF \E i \in DOMAIN valid :
                  optionalTrimThrows(property(valid[i], ContextLogicKey))
             THEN Thrown
             ELSE IF valid = <<>> THEN Returned(<<NoValidFlashcardsGeneric>>)
             ELSE Returned([i \in DOMAIN valid |-> mapGeneric(valid[i])])

\* FlashcardsService.parseFlashcardsResponse
parseFlashcardsResponseGeneric(text, types) ==
  catchAndReturn(tryParseFlashcardsGeneric(text, types), <<ParseErrorGeneric>>)

\* the try block of parseFlashcardsResponse of the political and the Kant service
tryParseFlashcardsPhilosophy(text, input) ==
  LET p == JSONparse(cleanResponseText(text))
  IN IF ~p.ok THEN Thrown
     ELSE IF p.val.t = "null" THEN Thrown
     ELSE IF ~isArray(property(p.val, FlashcardsKey)) THEN Thrown
     ELSE LET valid == SelectSeq(property(p.val, FlashcardsKey).v, keptByPhilosophy)
          IN IF valid = <<>> THEN Returned(<<NoValidFlashcardsPhilosophy(input)>>)
             ELSE Returned([i \in DOMAIN valid |-> mapPhilosophy(valid[i], input)])

\* parseFlashcardsResponse of the political and of the Kant service
parseFlashcardsResponsePhilosophy(text, input) ==
  catchAndReturn(tryParseFlashcardsPhilosophy(text, input), <<ParseErrorPhilosophy(input)>>)

\* the thinker and work of the request whose response is parsed
CardsInput == [thinker |-> <<"a">>, work |-> <<"c">>]

parseFlashcardsResponse(svc, text, types) ==
  IF svc = Generic
  THEN parseFlashcardsResponseGeneric(text, types)
  ELSE parseFlashcardsResponsePhilosophy(text, CardsInput)

\* ---- the responses of the flashcard parsers' specification
Card(members) == JObject(members)

SentCards ==
  { Card(<< <<TypeKey, JString(Concept)>>, <<FrontKey, JString(<<"a">>)>>,
            <<BackKey, JString(<<"b">>)>>, <<ContextLogicKey, JString(<<"c">>)>>,
            <<TagsKey, JArray(<<JString(<<"t">>), JNumber(<<"1">>)>>)>> >>),
    Card(<< <<TypeKey, JString(Concept)>>, <<FrontKey, JString(<<Space, "a">>)>>,
            <<BackKey, JString(<<"b">>)>> >>),
    Card(<< <<TypeKey, JString(Concept)>>, <<FrontKey, JString(<<"a">>)>>,
            <<BackKey, JString(<<"b">>)>>, <<ContextLogicKey, JNumber(<<"1">>)>> >>),
    Card(<< <<TypeKey, JString(Concept)>>, <<FrontKey, JString(<<Space>>)>>,
            <<BackKey, JString(<<"b">>)>>, <<ContextLogicKey, JString(<<"c">>)>> >>),
    Card(<< <<TypeKey, JString(<<"x">>)>>, <<FrontKey, JString(<<"a">>)>>,
            <<BackKey, JString(<<"b">>)>>, <<ContextLogicKey, JString(<<"c">>)>> >>),
    Card(<< <<TypeKey, JString(Concept)>>, <<BackKey, JString(<<"b">>)>>,
            <<ContextLogicKey, JString(<<"c">>)>> >>),
    JNumber(<<"1">>),
    JNull }

CardLists == UNION { [1..n -> SentCards] : n \in 0..MaxCards }

\* JSON values without a flashcards array
SentOthers ==
  { JObject(<<>>), JNull, JArray(<<>>),
    JObject(<< <<FlashcardsKey, JNumber(<<"1">>)>> >>),
    JObject(<< <<FlashcardsKey, JNull>> >>),
    JString(<<"a">>) }

SentValues == { JObject(<< <<FlashcardsKey, JArray(L)>> >>) : L \in CardLists } \cup SentOthers

NotJson == <<"n", "o", "t", Space, "j", "s", "o", "n">>

CardCallers ==
  { <<Generic, <<>>>>, <<Generic, <<Concept>>>>, <<Political, <<>>>>, <<Kant, <<>>>> }

CardsInit ==
  /\ body = NoBody
  /\ sent \in SentValues \cup { NoValue }
  /\ responseText \in (IF sent = NoValue THEN { NotJson }
                       ELSE { Render(sent), Fenced(Render(sent)) })
  /\ \E c \in CardCallers : caller = c[1] /\ cardTypes = c[2]
  /\ categories = <<>>
  /\ parsed = <<>>
  /\ ppc = "called"

\* one call of the caller's parseFlashcardsResponse
ParseFlashcards ==
  /\ ppc = "called"
  /\ caller \in Services
  /\ LET outcome == parseFlashcardsResponse(caller, responseText, cardTypes)
     IN /\ parsed' = outcome.value
        /\ ppc' = IF outcome.threw THEN "threw" ELSE "returned"
  /\ UNCHANGED callVars
  /\ UNCHANGED cacheVars

InitCards == CacheInit /\ CardsInit

NextCards == ParseFlashcards

SpecCards == InitCards /\ [][NextCards]_vars

\* ======================================================= YouTube response parser

DescriptionKey == <<"d", "e", "s", "c", "r", "i", "p", "t", "i", "o", "n">>

\* the fixed description of the fallback (a Hebrew sentence in the source)
CouldNotAnalyse == <<"n", "o", Space, "a", "n", "a", "l", "y", "s", "i", "s">>

YouTubeFallback == [description |-> CouldNotAnalyse, categories |-> <<>>]

\* parsed.description of a JSON value: reading a property of null throws
throwsOnProperty(val) == val.t = "null"

\* the try block of parseYouTubeResponse
tryParseYouTube(text, cats) ==
  LET p == JSONparse(cleanResponseText(text))
  IN IF ~p.ok THEN Thrown
     ELSE IF throwsOnProperty(p.val) THEN Thrown
     ELSE IF ~truthy(property(p.val, DescriptionKey)) THEN Thrown
     ELSE IF ~isArray(property(p.val, CategoriesKey)) THEN Thrown
     ELSE IF ~isString(property(p.val, DescriptionKey)) THEN Thrown
     ELSE Returned([description |-> trim(property(p.val, DescriptionKey).v),
                    categories |-> validCategories(property(p.val, CategoriesKey).v, cats)])

parseYouTubeResponse(text, cats) ==
  catchAndReturn(tryParseYouTube(text, cats), YouTubeFallback)

\* ---- inputs of the YouTube parser
YouTube == "YouTubeVideoAnalysisService"

Descriptions ==
  { JString(<<"d">>), JString(<<Space, "d">>), JString(<<>>), JString(<<Space>>),
    JNumber(<<"1">>), JNull, JArray(<<>>) }

YouTubeLists == { L \in Lists : Len(L) <= 1 } \cup { AllOfThem }

YouTubeSent ==
  { JObject(<< <<DescriptionKey, D>>, <<CategoriesKey, JArray(L)>> >>) :
      D \in Descriptions, L \in YouTubeLists }
  \cup { JObject(<< <<CategoriesKey, JArray(L)>> >>) : L \in YouTubeLists }
  \cup { JObject(<< <<DescriptionKey, D>> >>) : D \in Descriptions }
  \cup { JObject(<< <<DescriptionKey, D>>, <<CategoriesKey, JString(<<"a">>)>> >>) :
           D \in Descriptions }
  \cup { JNull, JArray(<<>>), JString(<<"d">>), JNumber(<<"1">>) }

YouTubeInit ==
  /\ body = NoBody
  /\ \/ /\ sent \in YouTubeSent
        /\ responseText \in { Render(sent), Fenced(Render(sent)) }
     \/ /\ sent = NoValue
        /\ responseText \in Unparseable
  /\ categories \in Vocabularies
  /\ cardTypes = <<>>
  /\ caller = YouTube
  /\ parsed = <<>>
  /\ ppc = "called"

ParseYouTube ==
  /\ ppc = "called"
  /\ caller = YouTube
  /\ LET outcome == parseYouTubeResponse(responseText, categories)
     IN /\ parsed' = outcome.value
        /\ ppc' = IF outcome.threw THEN "threw" ELSE "returned"
  /\ UNCHANGED callVars
  /\ UNCHANGED cacheVars

\* ---- the three parsers side by side
InitParsers == CacheInit /\ (ParseInit \/ YouTubeInit \/ CardsInit)

NextParsers == ParseStructured \/ ParseFallback \/ ParseYouTube \/ ParseFlashcards

SpecParsers == InitParsers /\ [][NextParsers]_vars

\* ======================================================= controllers: validation

\* requests the controllers accept in this specification
MaxHandled == 1

\* content and paragraph need at least 20 characters after trimming
MinContentLength == 20
\* the system instruction needs at least 50 characters after trimming
MinInstructionLength == 50

Chars(n) == [i \in 1..n |-> "x"]

\* !text || text.trim().length === 0
blank(text) == Len(trim(text)) = 0

NoError == "none"

\* mutant: the length of the content is not tested
validateInputGeneric_AnyLength(input) ==
  IF blank(input.content) THEN "Content is required and cannot be empty"
  ELSE IF blank(input.systemInstruction) THEN "System instruction is required"
  ELSE NoError

\* FlashcardsService.validateInput: the message of the Error thrown, or NoError
validateInputGeneric(input) ==
  IF blank(input.content) THEN "Content is required and cannot be empty"
  ELSE IF Len(trim(input.content)) < MinContentLength
  THEN "Content is too short. Please provide at least 20 characters"
  ELSE IF blank(input.systemInstruction) THEN "System instruction is required"
  ELSE IF Len(trim(input.systemInstruction)) < MinInstructionLength
  THEN "System instruction is too short"
  ELSE NoError

\* validateInput of the political and of the Kant service (Hebrew messages)
validateInputPhilosophy(input) ==
  IF blank(input.paragraph) THEN "paragraph is required and cannot be empty"
  ELSE IF Len(trim(input.paragraph)) < MinContentLength THEN "paragraph is too short"
  ELSE IF blank(input.thinker) THEN "thinker is required"
  ELSE IF blank(input.work) THEN "work is required"
  ELSE NoError

\* validateCategoryInput
validateCategoryInput(cats, title, description) ==
  IF Len(cats) = 0 THEN "Categories array is required and must not be empty"
  ELSE IF blank(title) THEN "Title is required and must be a non-empty string"
  ELSE IF blank(description) THEN "Description is required and must be a non-empty string"
  ELSE NoError

\* ---- request bodies: one valid text, and texts that are too short or blank
ValidContent == Chars(MinContentLength)
ShortContents ==
  { <<>>, <<Space>>, Chars(MinContentLength - 1),
    <<Space>> \o Chars(MinContentLength - 1) \o <<Space>> }

ValidInstruction == Chars(MinInstructionLength)
ShortInstructions == { <<>>, Chars(MinInstructionLength - 1) }

GenericBody(content, systemInstruction, conversationKey) ==
  [content |-> content, systemInstruction |-> systemInstruction,
   conversationKey |-> conversationKey]

GenericBodies ==
  { GenericBody(ValidContent, ValidInstruction, k) : k \in UserKeys }
  \cup { GenericBody(c, ValidInstruction, <<"x">>) : c \in ShortContents }
  \cup { GenericBody(ValidContent, i, <<"x">>) : i \in ShortInstructions }

PhilosophyBody(paragraph, thinker, work) ==
  [paragraph |-> paragraph, thinker |-> thinker, work |-> work]

Blanks == { <<>>, <<Space>> }

PhilosophyBodies ==
  { PhilosophyBody(ValidContent, tw[1], tw[2]) : tw \in Inputs }
  \cup { PhilosophyBody(p, <<"a">>, <<"c">>) : p \in ShortContents }
  \cup { PhilosophyBody(ValidContent, n, <<"c">>) : n \in Blanks }
  \cup { PhilosophyBody(ValidContent, <<"a">>, n) : n \in Blanks }

CategoryBody(cats, title, description) ==
  [categories |-> cats, title |-> title, description |-> description]

CategoryBodies ==
  { CategoryBody(<< <<"a">> >>, <<"t">>, <<"d">>), CategoryBody(<<>>, <<"t">>, <<"d">>) }
  \cup { CategoryBody(<< <<"a">> >>, n, <<"d">>) : n \in Blanks }
  \cup { CategoryBody(<< <<"a">> >>, <<"t">>, n) : n \in Blanks }

\* the controller's catch block: the error response, nothing else was done
Reject(svc, error) ==
  /\ error # NoError
  /\ ppc' = "rejected"
  /\ UNCHANGED cacheVars

\* flashcardsModule POST /generate up to the await of generateFlashcards
PostGenerate(b) ==
  /\ body' = b
  /\ caller' = Generic
  /\ LET error == validateInputGeneric(b)
     IN IF error # NoError THEN Reject(Generic, error)
        ELSE /\ started < MaxHandled
             /\ BeginGeneric(b.conversationKey)
             /\ ppc' = "accepted"
  /\ UNCHANGED <<responseText, categories, cardTypes, sent, parsed>>

\* the political and the Kant controller POST / up to the await of generateFlashcards
PostPhilosophy(svc, b) ==
  /\ body' = b
  /\ caller' = svc
  /\ LET error == validateInputPhilosophy(b)
     IN IF error # NoError THEN Reject(svc, error)
        ELSE /\ started < MaxHandled
             /\ BeginPhilosophy(svc, b.thinker, b.work)
             /\ ppc' = "accepted"
  /\ UNCHANGED <<responseText, categories, cardTypes, sent, parsed>>

\* categoryIdentificationController POST / up to `await model.generateContent(prompt)`
PostIdentifyCategories(b) ==
  /\ body' = b
  /\ caller' = CategoryIdentification
  /\ LET error == validateCategoryInput(b.categories, b.title, b.description)
     IN IF error # NoError THEN Reject(CategoryIdentification, error)
        ELSE /\ ppc' = "accepted"
             /\ categories' = b.categories
             /\ UNCHANGED cacheVars
  /\ IF validateCategoryInput(b.categories, b.title, b.description) # NoError
     THEN UNCHANGED categories ELSE TRUE
  /\ UNCHANGED <<responseText, cardTypes, sent, parsed>>

NextControllers ==
  \/ \E b \in GenericBodies : PostGenerate(b)
  \/ \E svc \in PhilosophyServices, b \in PhilosophyBodies : PostPhilosophy(svc, b)
  \/ \E b \in CategoryBodies : PostIdentifyCategories(b)
  \/ \E i \in InFlight : CompleteGeneric(i)
  \/ \E i \in InFlight : CompletePhilosophy(i)
  \/ \E i \in InFlight : FailGeneric(i)
  \/ \E i \in InFlight : FailPhilosophy(i)

SpecControllers == Init /\ [][NextControllers]_vars

\* ======================================================= generic conversation key

\* entries of a metadata object in the model
MaxEntries == 2

Comma == ","
Colon == ":"

\* UTF-16 code unit of a character
codeUnit(ch) ==
  IF ch = Comma THEN 44
  ELSE IF ch = Colon THEN 58
  ELSE IF ch = "I" THEN 73
  ELSE IF ch = "J" THEN 74
  ELSE IF ch = "a" THEN 97
  ELSE IF ch = "b" THEN 98
  ELSE IF ch = "c" THEN 99
  ELSE 124

\* s < t for strings: comparison by code units
RECURSIVE lessThan(_, _)
lessThan(s, t) ==
  IF t = <<>> THEN FALSE
  ELSE IF s = <<>> THEN TRUE
  ELSE IF codeUnit(Head(s)) # codeUnit(Head(t)) THEN codeUnit(Head(s)) < codeUnit(Head(t))
  ELSE lessThan(Tail(s), Tail(t))

\* String([k, v]) of an entry, the text Array.prototype.sort compares
toString(entry) == entry[1] \o <<Comma>> \o entry[2]

\* Array.prototype.sort without comparator: stable, ascending by toString
RECURSIVE sort(_)
sort(entries) ==
  IF entries = <<>> THEN <<>>
  ELSE LET last == entries[Len(entries)]
           front == sort(SubSeq(entries, 1, Len(entries) - 1))
           notAfter(e) == ~lessThan(toString(last), toString(e))
           after(e) == lessThan(toString(last), toString(e))
       IN SelectSeq(front, notAfter) \o <<last>> \o SelectSeq(front, after)

\* parts.join(separator)
RECURSIVE join(_, _)
join(parts, separator) ==
  IF parts = <<>> THEN <<>>
  ELSE IF Len(parts) = 1 THEN parts[1]
  ELSE parts[1] \o separator \o join(Tail(parts), separator)

\* createHash('sha256').update(text).digest('hex').substring(0, 16):
\* digests of different texts are different
digest(text) == [sha256 |-> text]

\* contextMetadata is optional
NoMetadata == [defined |-> FALSE, entries |-> <<>>]

Object(entries) == [defined |-> TRUE, entries |-> entries]

\* Object.entries(contextMetadata): the entries in insertion order
entriesOf(contextMetadata) == contextMetadata.entries

\* FlashcardsService.generateConversationKey
generateConversationKeyGeneric(systemInstruction, contextMetadata) ==
  LET sorted == sort(entriesOf(contextMetadata))
      metadataStr ==
        IF ~contextMetadata.defined THEN <<>>
        ELSE join([i \in DOMAIN sorted |-> sorted[i][1] \o <<Colon>> \o sorted[i][2]],
                  <<Pipe>>)
  IN digest(systemInstruction \o <<Pipe>> \o metadataStr)

\* ---- inputs
MetadataKeys == { <<"a">>, <<"b">>, <<"a", Comma, "b">> }
MetadataValues == { <<"c">>, <<"b", Comma, "c">> }

\* metadata objects: sequences of entries with distinct keys, in insertion order
EntryLists ==
  { m \in UNION { [1..n -> MetadataKeys \X MetadataValues] : n \in 0..MaxEntries } :
      \A i, j \in DOMAIN m : m[i][1] = m[j][1] => i = j }

Metadata == { Object(m) : m \in EntryLists }

SystemInstructions == { <<"I">>, <<"J">> }

KeyInit ==
  /\ body \in [systemInstruction : SystemInstructions,
               contextMetadata : Metadata \cup { NoMetadata }]
  /\ responseText = <<>>
  /\ categories = <<>>
  /\ cardTypes = <<>>
  /\ caller = Generic
  /\ sent = NoValue
  /\ parsed = <<>>
  /\ ppc = "called"

DeriveKey ==
  /\ ppc = "called"
  /\ parsed' = generateConversationKeyGeneric(body.systemInstruction, body.contextMetadata)
  /\ ppc' = "derived"
  /\ UNCHANGED callVars
  /\ UNCHANGED cacheVars

InitKey == CacheInit /\ KeyInit

NextKey == DeriveKey

SpecKey == InitKey /\ [][NextKey]_vars

\* ======================================================= requests and their AI call

\* requests started in the specification with fairness
MaxLive == 2

\* request n is suspended at `await chat.sendMessage(message)`
Awaiting(n) == \E i \in InFlight : tasks[i].n = n

\* the AI call of request n returns or fails, and the request runs to its end
Settle(n) ==
  \E i \in InFlight :
    /\ tasks[i].n = n
    /\ \/ CompleteGeneric(i)
       \/ CompletePhilosophy(i)
       \/ FailGeneric(i)
       \/ FailPhilosophy(i)

LiveStartGeneric(k) == started < MaxLive /\ StartGeneric(k)

LiveStartPhilosophy(svc, thinker, work) ==
  started < MaxLive /\ StartPhilosophy(svc, thinker, work)

NextLive ==
  \/ \E k \in UserKeys : LiveStartGeneric(k)
  \/ \E svc \in PhilosophyServices, tw \in Inputs : LiveStartPhilosophy(svc, tw[1], tw[2])
  \/ \E i \in InFlight : CompleteGeneric(i)
  \/ \E i \in InFlight : CompletePhilosophy(i)
  \/ \E i \in InFlight : FailGeneric(i)
  \/ \E i \in InFlight : FailPhilosophy(i)

\* every AI call eventually returns or fails
SpecLive ==
  Init /\ [][NextLive]_vars /\ \A n \in 1..MaxLive : WF_vars(Settle(n))

\* ======================================================= claims
\* C1: after N >= 1 exchanges recorded for a key since its history was last
\* absent, the stored history is the first recorded pair when N = 1, and for
\* every N >= 2 has exactly 4 entries: the first recorded pair, then the most
\* recent pair.
C1_HistoryTruncation ==
  \A s \in Stores : \A k \in DOMAIN chatHistory[s] \cup DOMAIN exchanges[s] :
    LET h == Get(chatHistory[s], k, <<>>)
        e == Get(exchanges[s], k, [n |-> 0])
    IN /\ e.n = 0 => Len(h) = 0
       /\ e.n = 1 => Len(h) = 2 /\ h = e.first
       /\ e.n >= 2 => /\ Len(h) = 4
                      /\ SubSeq(h, 1, 2) = e.first
                      /\ SubSeq(h, 3, 4) = e.last

\* three exchanges were recorded for one key: the middle one has been dropped
C1_Witness ==
  \E s \in Stores : \E k \in DOMAIN exchanges[s] :
    /\ exchanges[s][k].n >= 3
    /\ Len(chatHistory[s][k]) = 4
    /\ exchanges[s][k].first # exchanges[s][k].last

\* C2: on every channel (from the creation of the conversation to its next
\* invalidation or eviction) at most one message carries the system
\* instruction, whatever the interleaving of same-key requests.
C2_InstructionAtMostOnce ==
  \A ch \in DOMAIN channels : channels[ch].instructions <= 1

\* two requests of one key are in flight on the same channel: the first carries
\* the instruction, the one started meanwhile does not
C2_Witness ==
  \E i, j \in InFlight :
    /\ i < j
    /\ tasks[i].key = tasks[j].key
    /\ tasks[i].chat = tasks[j].chat
    /\ CarriesInstruction(tasks[i].message)
    /\ ~CarriesInstruction(tasks[j].message)
    /\ channels[tasks[i].chat].sends = 2

\* C3: the first-message predicate is true for exactly the request that
\* creates (or recreates) the channel of its key and false for every later
\* request on that channel; the message carries the instruction exactly when
\* the predicate is true.
C3_FirstMessageOnce ==
  \A i \in InFlight :
    /\ tasks[i].isFirstMessage = tasks[i].created
    /\ CarriesInstruction(tasks[i].message) = tasks[i].isFirstMessage

\* a later request of a sequence of successful requests on one key: no failure
\* so far, one exchange already answered, the message without the instruction
C3_Witness ==
  /\ Len(tasks) = 1
  /\ failed = {}
  /\ lastOutcome.status = "ok"
  /\ ~tasks[1].isFirstMessage
  /\ ~tasks[1].created
  /\ channels[tasks[1].chat].sends = 2
  /\ channels[tasks[1].chat].instructions = 1

\* C4: in the generic service a failed send for key k removes channel, history
\* and flag of k and returns the generic failure, and the next request for k
\* creates a new channel seeded with empty history and carries the instruction.
C4_GenericFailureStartsClean ==
  /\ (lastOutcome.status = "error" /\ lastOutcome.svc = Generic)
       => (lastOutcome.error = GenericError /\ ~lastOutcome.remains)
  /\ \A i \in InFlight :
       (tasks[i].svc = Generic /\ tasks[i].afterFailure)
         => /\ tasks[i].created
            /\ tasks[i].seeded = 0
            /\ CarriesInstruction(tasks[i].message)

\* C5: in the political and Kant services a failed send for key k removes
\* channel, history and flag of k, and the next request for k creates a new
\* channel with empty history and carries the instruction.
C5_PhilosophyFailureStartsClean ==
  /\ (lastOutcome.status = "error" /\ lastOutcome.svc \in PhilosophyServices)
       => ~lastOutcome.remains
  /\ \A i \in InFlight :
       (tasks[i].svc \in PhilosophyServices /\ tasks[i].afterFailure)
         => /\ tasks[i].created
            /\ tasks[i].seeded = 0
            /\ CarriesInstruction(tasks[i].message)

C7_WorkSwitchEvicts ==
  /\ \A i \in InFlight :
       (tasks[i].svc \in PhilosophyServices /\ tasks[i].created)
         => (~tasks[i].othersLeft /\ tasks[i].seeded = 0)
  /\ (lastOutcome.status = "ok" /\ lastOutcome.svc \in PhilosophyServices
        /\ lastOutcome.created)
       => (~lastOutcome.oldHistory /\ lastOutcome.ownHistory)

\* C8: a step of a request leaves every other key of the generic cache
\* unchanged, a step of a philosophy request leaves unchanged every key that is
\* not one of its thinker, and requests for different thinkers end with
\* separate histories.
SameEntry(store, k) ==
  /\ (k \in DOMAIN chatSessions[store]) = (k \in DOMAIN chatSessions'[store])
  /\ (k \in DOMAIN chatSessions[store] => chatSessions'[store][k] = chatSessions[store][k])
  /\ (k \in DOMAIN chatHistory[store]) = (k \in DOMAIN chatHistory'[store])
  /\ (k \in DOMAIN chatHistory[store] => chatHistory'[store][k] = chatHistory[store][k])
  /\ (k \in conversationInitialized[store]) = (k \in conversationInitialized'[store])

\* the request that takes the step
Actor ==
  IF started' > started
  THEN tasks'[Len(tasks')]
  ELSE tasks[CHOOSE i \in InFlight : tasks' = Without(tasks, i)]

AllKeys(store) ==
  CachedKeys(Cache(store)) \cup DOMAIN chatSessions'[store]
    \cup DOMAIN chatHistory'[store] \cup conversationInitialized'[store]

SeparateHistories ==
  \A k \in DOMAIN chatHistory[Philosophy] :
    \A i, j \in DOMAIN chatHistory[Philosophy][k] :
      (chatHistory[Philosophy][k][i].role = "user"
         /\ chatHistory[Philosophy][k][j].role = "user")
        => chatHistory[Philosophy][k][i].text.thinker
             = chatHistory[Philosophy][k][j].text.thinker

C8_Frame ==
  /\ \A k \in AllKeys(StoreOf(Actor.svc)) :
       (IF Actor.svc = Generic
        THEN k # Actor.key
        ELSE ~startsWith(k, Actor.thinker \o <<Pipe>>))
         => SameEntry(StoreOf(Actor.svc), k)
  /\ \A s \in Stores \ {StoreOf(Actor.svc)} : \A k \in AllKeys(s) : SameEntry(s, k)

C8_KeysIndependent == [][C8_Frame /\ SeparateHistories']_vars

\* C9: for every vocabulary V and every response of the shape {categories: L}
\* or bare array L the parser returns exactly the elements of L that are
\* members of V, trimmed and in their order, the others dropped; and on every
\* path each returned element is a member of V.
InVocabulary(x) == \E i \in DOMAIN categories : categories[i] = x

ExpectedCategories(L) ==
  LET member(e) == e.t = "string" /\ InVocabulary(trim(e.v))
      kept == SelectSeq(L, member)
  IN [i \in DOMAIN kept |-> trim(kept[i].v)]

C9_OnlyVocabularyReturned ==
  ppc \in { "returned", "fellBack" }
    => /\ \A L \in Lists :
            responseText \in Renderings(L) => parsed = ExpectedCategories(L)
       /\ \A i \in DOMAIN parsed : InVocabulary(parsed[i])

\* C10: when the response text is not JSON the parser returns exactly the
\* vocabulary entries that occur in the raw response as substrings, letter
\* case ignored, in vocabulary order; the empty list when none occurs; it
\* always returns.
SameLetter(x, y) ==
  x = y \/ \E pair \in { {"a", "A"}, {"b", "B"} } : { x, y } = pair

OccursIgnoringCase(entry, text) ==
  \E at \in 0..(Len(text) - Len(entry)) :
    \A j \in DOMAIN entry : SameLetter(text[at + j], entry[j])

C10_FallbackFindsEntries ==
  responseText \in Unparseable
    => /\ ppc \in { "called", "fellBack" }
       /\ ppc = "fellBack"
            => /\ \A i \in DOMAIN categories :
                    OccursIgnoringCase(categories[i], responseText)
                      <=> \E j \in DOMAIN parsed : parsed[j] = categories[i]
               /\ \A i, j \in DOMAIN parsed :
                    i < j => \E a, b \in DOMAIN categories :
                               a < b /\ categories[a] = parsed[i] /\ categories[b] = parsed[j]

\* a text that is not JSON names a vocabulary entry in another letter case, and
\* the entry is returned
C10_Witness ==
  /\ ppc = "fellBack"
  /\ responseText \in Unparseable
  /\ ~JSONparse(cleanResponseText(responseText)).ok
  /\ Len(parsed) >= 1
  /\ \E i \in DOMAIN parsed : ~includes(responseText, parsed[i])

\* C11: for every text T, cleaning T wrapped in a leading fence (with or
\* without the language tag) and a trailing fence gives trim(T).
C11_CleanUnwraps ==
  ppc = "cleaned"
    => \A T \in Texts :
         responseText \in { fenceWrapTagged(T), fenceWrapPlain(T) } => parsed = trim(T)

\* the flashcards array of the response, when it has one
HasFlashcardsArray == sent.t = "object" /\ isArray(property(sent, FlashcardsKey))
SentFlashcards == IF HasFlashcardsArray THEN property(sent, FlashcardsKey).v ELSE <<>>

\* a card is structurally valid for the calling service: an object with string
\* type, front and back; of an allowed type when the generic caller names card
\* types; with a string context_logic and one of the four types for the
\* philosophy services
HasString(card, key) ==
  card.t = "object" /\ \E i \in DOMAIN card.v : card.v[i][1] = key /\ card.v[i][2].t = "string"

StringOf(card, key) ==
  card.v[CHOOSE i \in DOMAIN card.v : card.v[i][1] = key][2].v

StructurallyValid(card) ==
  /\ HasString(card, TypeKey) /\ HasString(card, FrontKey) /\ HasString(card, BackKey)
  /\ IF caller = Generic
     THEN cardTypes = <<>> \/ \E i \in DOMAIN cardTypes : cardTypes[i] = StringOf(card, TypeKey)
     ELSE HasString(card, ContextLogicKey) /\ StringOf(card, TypeKey) \in FlashcardType

ValidSent == SelectSeq(SentFlashcards, StructurallyValid)

\* C12: when the flashcards array of the response holds at least one
\* structurally valid card, the parser returns exactly the structurally valid
\* cards, in their order; no other card of the array makes them get lost.
C12_ValidCardsKept ==
  (ppc = "returned" /\ ValidSent # <<>>)
    => /\ Len(parsed) = Len(ValidSent)
       /\ \A i \in DOMAIN ValidSent :
            /\ parsed[i].type.v = StringOf(ValidSent[i], TypeKey)
            /\ parsed[i].front.v = trim(StringOf(ValidSent[i], FrontKey))
            /\ parsed[i].back.v = trim(StringOf(ValidSent[i], BackKey))

\* C13: when the flashcards array holds no valid card, or the flashcards field
\* is absent or no array, or the response is not JSON, the parser of each of
\* the three services returns exactly one card, of type "Error".
C13_SingleErrorCard ==
  (ppc = "returned" /\ ValidSent = <<>>)
    => /\ Len(parsed) = 1
       /\ parsed[1].type.v = ErrorType

\* C14: every returned card has a front and a back that are non-empty after
\* trimming, and a type of the card types the caller supplied, if any.
C14_CardsWellFormed ==
  ppc = "returned"
    => \A i \in DOMAIN parsed :
         /\ trim(parsed[i].front.v) # <<>>
         /\ trim(parsed[i].back.v) # <<>>
         /\ cardTypes # <<>>
              => \E j \in DOMAIN cardTypes : cardTypes[j] = parsed[i].type.v

\* the value a returned call hands back is a result object of the parser's shape
UsableResult ==
  IF caller = YouTube
  THEN /\ DOMAIN parsed = { "description", "categories" }
       /\ parsed.categories \in Seq({ categories[i] : i \in DOMAIN categories }
                                     \cup { <<Space>> \o categories[i] : i \in DOMAIN categories })
  ELSE IF caller \in Services
  THEN Len(parsed) >= 1 /\ \A i \in DOMAIN parsed : DOMAIN parsed[i] = DOMAIN ParseErrorGeneric
  ELSE \A i \in DOMAIN parsed : parsed[i] \in Seq({ Space, "a", "b", "A", "B", "x" })

MatchingCategories == IF caller = YouTube THEN parsed.categories ELSE parsed

\* C17: the list of matching categories returned by category identification
\* and by the YouTube analysis has at most 3 elements, whatever the vocabulary
\* and whatever the AI returned.
C17_AtMostThreeCategories ==
  (caller \in { CategoryIdentification, YouTube } /\ ppc \in { "returned", "fellBack" })
    => Len(MatchingCategories) <= 3

\* the request handled last violates a precondition
ViolatesPrecondition(svc, b) ==
  IF svc = Generic THEN Len(b.content) < MinContentLength
  ELSE IF svc \in PhilosophyServices
  THEN Len(b.paragraph) < MinContentLength \/ b.thinker = <<>> \/ b.work = <<>>
  ELSE b.categories = <<>> \/ b.title = <<>> \/ b.description = <<>>

\* a controller handled a request in this step
Handled ==
  \/ body' # body
  \/ caller' # caller
  \/ ppc' # ppc
  \/ started' # started

\* C16: a request whose input violates a precondition (empty vocabulary, empty
\* title or description, content or paragraph shorter than 20 characters,
\* empty thinker or work) fails with a validation error before any AI call is
\* made and without any change to the conversation cache.
C16_InvalidInputRejected ==
  [][(Handled /\ ViolatesPrecondition(caller', body'))
       => /\ ppc' = "rejected"
          /\ UNCHANGED <<chatSessions, chatHistory, conversationInitialized,
                         channels, tasks, started>>]_vars

\* a request with a paragraph of 19 characters was rejected while a
\* conversation is cached and another request is in flight
C16_Witness ==
  /\ ppc = "rejected"
  /\ caller \in PhilosophyServices
  /\ Len(body.paragraph) = MinContentLength - 1
  /\ chatSessions[Philosophy] # <<>>
  /\ tasks # <<>>

\* the metadata objects holding the same key-value pairs as m, in any insertion order
SamePairs(m) ==
  IF ~m.defined THEN { NoMetadata }
  ELSE { o \in Metadata :
           { o.entries[i] : i \in DOMAIN o.entries } = { m.entries[i] : i \in DOMAIN m.entries } }

\* C18: the generic conversation key is a function of (system instruction,
\* metadata): equal inputs give the same key, and metadata objects with the
\* same key-value pairs inserted in different orders give the same key.
C18_KeyOrderIndependent ==
  ppc = "derived" =>
    \A other \in SamePairs(body.contextMetadata) :
      generateConversationKeyGeneric(body.systemInstruction, other) = parsed

\* C19: in every reachable state, under any interleaving of same-key requests,
\* failures and evictions, the stored history of each key has an even length
\* of at most 4 and its roles alternate user, model.
C19_HistoryShape ==
  \A s \in Stores : \A k \in DOMAIN chatHistory[s] :
    LET h == chatHistory[s][k]
    IN /\ Len(h) \in { 0, 2, 4 }
       /\ \A i \in DOMAIN h : h[i].role = IF i % 2 = 1 THEN "user" ELSE "model"

\* a history of 4 entries is stored for a key that lost its channel to a
\* failure or an eviction, while a request with that key is in flight
C19_Witness ==
  \E s \in Stores : \E k \in DOMAIN chatHistory[s] :
    /\ Len(chatHistory[s][k]) = 4
    /\ \E i \in InFlight : tasks[i].key = k /\ StoreOf(tasks[i].svc) = s /\ tasks[i].created
    /\ exchanges[s][k].n >= 2

\* C20: whenever a key has stored history, entry 0 of that history is the user
\* message that carried the system instruction of the conversation, also when
\* same-key requests complete in another order than they were sent or when
\* one of them fails.
C20_FirstEntryCarriesInstruction ==
  \A s \in Stores : \A k \in DOMAIN chatHistory[s] :
    LET h == chatHistory[s][k]
    IN Len(h) > 0 => h[1].role = "user" /\ CarriesInstruction(h[1].text)

\* no request for key k of the store is suspended at its await
Quiet(s, k) == \A i \in InFlight : ~(StoreOf(tasks[i].svc) = s /\ tasks[i].key = k)

\* the state Absent of a key
KeyAbsent(s, k) ==
  /\ k \notin DOMAIN chatSessions[s]
  /\ k \notin DOMAIN chatHistory[s]
  /\ k \notin conversationInitialized[s]

\* the states Initialized with one or with two stored pairs
KeyInitialized(s, k) ==
  /\ k \in DOMAIN chatSessions[s]
  /\ k \in conversationInitialized[s]
  /\ k \in DOMAIN chatHistory[s]
  /\ Len(chatHistory[s][k]) \in { 2, 4 }

\* C21: per conversation key the cache follows the state machine Absent,
\* Created, Initialized with one pair, Initialized with two pairs: whenever no
\* request for a key is in flight, the key has no channel, no history and no
\* flag, or it has a channel, the flag and a history of one or two pairs.
C21_KeyStateMachine ==
  \A s \in Stores : \A k \in CachedKeys(Cache(s)) :
    Quiet(s, k) => KeyAbsent(s, k) \/ KeyInitialized(s, k)

\* what getOrCreate did for the request that starts in this step
GetOrCreateStep ==
  LET t == tasks'[Len(tasks')]
      s == StoreOf(t.svc)
      k == t.key
  IN IF k \in DOMAIN chatSessions[s]
     THEN /\ ~t.created
          /\ Len(channels') = Len(channels)
          /\ t.chat = chatSessions[s][k].id
          /\ chatSessions'[s][k] = chatSessions[s][k]
     ELSE /\ t.created
          /\ Len(channels') = Len(channels) + 1
          /\ t.chat = Len(channels')
          /\ chatSessions'[s][k] = [id |-> t.chat, history |-> Get(chatHistory[s], k, <<>>)]
          /\ t.seeded = Len(Get(chatHistory[s], k, <<>>))
          /\ (k \in conversationInitialized'[s]) = t.isFirstMessage
          /\ KeyAbsent(s, k) => t.seeded = 0

NoOuterFence == 
  /\ ~startsWith(trim(responseText), Fence)
  /\ ~endsWith(trim(responseText), Fence)

\* C24: the cleaner removes fence markers only at the start and at the end of
\* the trimmed text: for every text whose trimmed form neither starts nor ends
\* with a fence marker, fence markers in its interior included, the output
\* equals trim(input).
C24_InteriorFencesKept ==
  (ppc = "cleaned" /\ NoOuterFence) => parsed = trim(responseText)

\* a text with a fence marker between two letters was cleaned
C24_Witness ==
  /\ ppc = "cleaned"
  /\ responseText = <<Space, "x">> \o Fence \o <<"x", Space>>
  /\ parsed = <<"x">> \o Fence \o <<"x">>

\* the response is valid JSON with a description and an array of categories
YouTubeWellFormed ==
  /\ sent # NoValue
  /\ truthy(property(sent, DescriptionKey))
  /\ isArray(property(sent, CategoriesKey))

\* the elements of the response's array that are entries of the vocabulary
FilteredAgainstVocabulary ==
  LET inVocabulary(cat) ==
        cat.t = "string" /\ \E i \in DOMAIN categories : categories[i] = cat.v
      kept == SelectSeq(property(sent, CategoriesKey).v, inVocabulary)
  IN [i \in DOMAIN kept |-> kept[i].v]

\* C23: the description + category parser returns the fixed placeholder
\* description with an empty category list whenever the response is not valid
\* JSON, has no description, or has categories that are not an array;
\* otherwise it returns the trimmed description and the categories filtered
\* against the vocabulary; it never throws.
C23_YouTubeParse ==
  (caller = YouTube /\ ppc \in { "returned", "threw" })
    => /\ ppc = "returned"
       /\ IF YouTubeWellFormed
          THEN /\ parsed.categories = FilteredAgainstVocabulary
               /\ isString(property(sent, DescriptionKey))
                    => parsed.description = trim(property(sent, DescriptionKey).v)
          ELSE parsed = YouTubeFallback

RECURSIVE SumOfSends(_)
SumOfSends(chans) ==
  IF chans = <<>> THEN 0 ELSE Head(chans).sends + SumOfSends(Tail(chans))

\* one message was sent for each started request: no request sends twice
OneCallEach == SumOfSends(channels) = started

\* a request in flight can run to its end whatever the other requests do
NeverWaits == \A n \in 1..MaxLive : Awaiting(n) => ENABLED Settle(n)

\* a request leaves its await only when its own AI call returns or fails
OnlyOwnCallEnds ==
  \A n \in 1..MaxLive : (Awaiting(n) /\ ~Awaiting(n)') => Settle(n)

\* C25: every started request performs at most one AI call and eventually
\* completes (with a result or a single failure) provided that call eventually
\* returns or fails; it never waits for another request, and nothing but the
\* end of its own call (no timeout) takes it out of its await.
C25_RequestsComplete ==
  /\ [](OneCallEach /\ NeverWaits)
  /\ [][OnlyOwnCallEnds]_vars
  /\ \A n \in 1..MaxLive : Awaiting(n) ~> ~Awaiting(n)

\* the second request has completed while the first is still at its await
C25_Witness ==
  /\ started = 2
  /\ Len(tasks) = 1
  /\ tasks[1].n = 1
  /\ lastOutcome.status = "ok"

\* C26: in every reachable state of each flashcard service, a key that has
\* stored history also has a cached channel: no history survives, or is
\* written after, the removal of its channel, also when a request for the key
\* is in flight while the key is invalidated by a failure or evicted by a
\* work switch.
C26_HistoryHasChannel ==
  \A s \in Stores : \A k \in DOMAIN chatHistory[s] : k \in DOMAIN chatSessions[s]

\* a request completes successfully in this step
Succeeds == started' = started /\ Len(tasks') < Len(tasks) /\ lastOutcome'.status = "ok"

\* C27: whenever a request completes successfully with a message that did not
\* carry the system instruction, an earlier message that carried the
\* instruction was successfully answered on the same channel.
C27_InstructionDeliveredFirst ==
  [][(Succeeds /\ ~CarriesInstruction(Actor.message)) => channels[Actor.chat].answered]_vars

\* what the starting request of a philosophy service found and used is its own
OwnConversation ==
  LET a == Actor
      k == a.key
      h == Get(chatHistory[Philosophy], k, <<>>)
  IN /\ ~a.created => channels[a.chat].by = a.svc
     /\ (a.created /\ h # <<>>)
          => h[1].text.systemInstructionPrefix \in { "", buildSystemInstruction(a.svc) }
     /\ \A old \in DOMAIN chatSessions[Philosophy] \ DOMAIN chatSessions'[Philosophy] :
          channels[chatSessions[Philosophy][old].id].by = a.svc

\* C28: the political service and the Kant service are isolated from each
\* other: a request to one of them never reuses a channel, a history or an
\* initialized flag created by a request to the other and never evicts the
\* other's conversations, also for the same (thinker, work).
C28_ServicesIsolated ==
  [][(started' > started /\ Actor.svc \in PhilosophyServices) => OwnConversation]_vars

\* the works of `thinker` of which the philosophy store holds a channel, a
\* history or an initialized flag
WorksCached(thinker) ==
  { work \in Works :
      generateConversationKey(thinker, work) \in CachedKeys(Cache(Philosophy)) }

\* C29: in the philosophy services, at any time and under any interleaving, at
\* most one work per thinker has cached state (a channel, a history or an
\* initialized flag): after a switch from one work of a thinker to another,
\* nothing of the first remains or reappears.
C29_OneWorkPerThinker ==
  \A thinker \in Thinkers : Cardinality(WorksCached(thinker)) <= 1

\* C30: in the philosophy services the conversation key is injective on
\* (thinker, work): two requests whose (thinker, work) pairs differ never
\* obtain the same key, names that contain the separator | included.
C30_KeyInjective ==
  \A i, j \in InFlight :
    ( /\ tasks[i].svc \in PhilosophyServices
      /\ tasks[j].svc \in PhilosophyServices
      /\ <<tasks[i].thinker, tasks[i].work>> # <<tasks[j].thinker, tasks[j].work>> )
      => tasks[i].key # tasks[j].key

====
